---- MODULE Spec2Model ----
(***************************************************************************)
(* A model of the three batch stages of the price-inflation pipeline:      *)
(*   scripts/final_data_extraction_s3.py  (extraction),                    *)
(*   scripts/Final_cleaning.py            (cleaning),                      *)
(*   scripts/Analysis.py                  (analysis).                      *)
(*                                                                         *)
(* Text is a sequence of one-character strings, so that strip, lower,      *)
(* replace, slicing and the regular expressions are computed character by  *)
(* character.  A decimal number is a pair (m, k) standing for m / 10^k,    *)
(* kept normalised (k = 0 or m not a multiple of 10).                      *)
(***************************************************************************)
EXTENDS Integers, Sequences, FiniteSets, TLC

VARIABLES
    \* ---- Final_cleaning.py : clean_data
    input_files,      \* the files named by input_paths, each a sequence of lines
    cpc,              \* position in clean_data: "loop", "done"
    fi,               \* index of the file being read
    li,               \* index of the next line of that file
    filtered_data,    \* the list clean_data accumulates
    seen_items,       \* the normalised item of every parsed line, in order
    cleaned,          \* the JSON array written to output_path ("none": not written)
    \* ---- Analysis.py : analyze_data
    apc,              \* position in analyze_data: "idle", "segment", "stats", "done"
    records,          \* the records loaded from the input file
    ri,               \* index of the next record of the segmentation loop
    yearly_price_segments,   \* year -> [low, mid, high], the defaultdict
    yearly_segment_summary,  \* year -> tier -> statistics
    inflation_summary,       \* year -> tier -> rate or null
    inflation_analysis,      \* the list of sentences
    \* ---- final_data_extraction_s3.py : extract_product_data
    html_doc,         \* the parsed document handed to extract_product_data
    product_data,     \* whether it has returned, and its return value
    \* ---- final_data_extraction_s3.py : process_parquet_files
    listing,          \* the objects list_objects_v2 returned
    ppc,              \* position in process_parquet_files
    oi,               \* index of the object being processed
    rowi,             \* index of the next row of the batch
    extracted_data,   \* the records accumulated for the batch
    df,               \* the rows of the batch being processed
    tmp_files,        \* the files present under /tmp
    uploaded,         \* output key -> uploaded content
    batch_log         \* per listed object, what became of it

cleanVars == <<input_files, cpc, fi, li, filtered_data, seen_items, cleaned>>
analysisVars == <<apc, records, ri, yearly_price_segments, yearly_segment_summary,
                  inflation_summary, inflation_analysis>>
extractVars == <<html_doc, product_data>>
stageVars == <<listing, ppc, oi, rowi, extracted_data, df, tmp_files,
               uploaded, batch_log>>
vars == <<cleanVars, analysisVars, extractVars, stageVars>>

-----------------------------------------------------------------------------
(* Characters and text *)

DigitChars == <<"0", "1", "2", "3", "4", "5", "6", "7", "8", "9">>
UpperChars == <<"A", "B", "C", "D", "E", "F", "G", "H", "I", "J", "K", "L", "M",
                "N", "O", "P", "Q", "R", "S", "T", "U", "V", "W", "X", "Y", "Z">>
LowerChars == <<"a", "b", "c", "d", "e", "f", "g", "h", "i", "j", "k", "l", "m",
                "n", "o", "p", "q", "r", "s", "t", "u", "v", "w", "x", "y", "z">>
WhiteChars == {" ", "\n", "\t"}

IsDigitChar(c) == \E i \in DOMAIN DigitChars : DigitChars[i] = c
DigitVal(c) == (CHOOSE i \in DOMAIN DigitChars : DigitChars[i] = c) - 1

\* str.lower() on one character
LowerChar(c) ==
    IF \E i \in DOMAIN UpperChars : UpperChars[i] = c
    THEN LowerChars[CHOOSE i \in DOMAIN UpperChars : UpperChars[i] = c]
    ELSE c

\* str.lower()
Lower(s) == [i \in DOMAIN s |-> LowerChar(s[i])]

\* str.strip()
Strip(s) ==
    LET keep == {i \in DOMAIN s : s[i] \notin WhiteChars}
    IN  IF keep = {} THEN << >>
        ELSE LET lo == CHOOSE i \in keep : \A j \in keep : i <= j
                 hi == CHOOSE i \in keep : \A j \in keep : i >= j
             IN  SubSeq(s, lo, hi)

\* str.replace(c, '')
RemoveChar(s, c) == SelectSeq(s, LAMBDA x : x # c)

\* str.isdigit()
IsDigitText(s) == Len(s) > 0 /\ \A i \in DOMAIN s : IsDigitChar(s[i])

HasChar(s, c) == \E i \in DOMAIN s : s[i] = c

RECURSIVE Pow10(_)
Pow10(n) == IF n = 0 THEN 1 ELSE 10 * Pow10(n - 1)

RECURSIVE DigitsValue(_)
DigitsValue(s) ==
    IF s = << >> THEN 0
    ELSE 10 * DigitsValue(SubSeq(s, 1, Len(s) - 1)) + DigitVal(s[Len(s)])

RECURSIVE NormDec(_, _)
NormDec(m, k) ==
    IF k > 0 /\ m % 10 = 0 THEN NormDec(m \div 10, k - 1) ELSE [m |-> m, k |-> k]

\* float(s) for s made of sign, digits and '.', the characters the model draws
\* prices from; any other character makes float raise ValueError.
ParseFloat(s) ==
    LET signed == Len(s) > 0 /\ s[1] \in {"-", "+"}
        body == IF signed THEN Tail(s) ELSE s
        dots == {i \in DOMAIN body : body[i] = "."}
        digs == SelectSeq(body, IsDigitChar)
        wellFormed == /\ Cardinality(dots) <= 1
                      /\ Len(digs) >= 1
                      /\ Len(digs) + Cardinality(dots) = Len(body)
        frac == IF dots = {} THEN 0 ELSE Len(body) - (CHOOSE i \in dots : TRUE)
        mag == DigitsValue(digs)
        val == IF signed /\ s[1] = "-" THEN 0 - mag ELSE mag
    IN  IF wellFormed
        THEN [ok |-> TRUE, num |-> NormDec(val, frac)]
        ELSE [ok |-> FALSE, num |-> [m |-> 0, k |-> 0]]

-----------------------------------------------------------------------------
(* JSON values of the fields the stages read *)

NoText == << >>
ZeroNum == [m |-> 0, k |-> 0]

\* a price: the key is absent, or null, or a string, or a number
PAbsent == [tag |-> "absent", s |-> NoText, num |-> ZeroNum]
PNull == [tag |-> "null", s |-> NoText, num |-> ZeroNum]
PStr(t) == [tag |-> "str", s |-> t, num |-> ZeroNum]
PNum(n) == [tag |-> "num", s |-> NoText, num |-> n]
Whole(n) == [m |-> n, k |-> 0]
Cents(n) == NormDec(n, 2)

\* a fetch_time: the key is absent, or null, or a string
FAbsent == [tag |-> "absent", s |-> NoText]
FNull == [tag |-> "null", s |-> NoText]
FStr(t) == [tag |-> "str", s |-> t]

\* d >= n and d = n for a decimal d and an integer n
NumGE(d, n) == d.m >= n * Pow10(d.k)
NumGT(d, n) == d.m > n * Pow10(d.k)
NumLE(d, n) == d.m <= n * Pow10(d.k)
NumIn(d, S) == d.k = 0 /\ d.m \in S

-----------------------------------------------------------------------------
(* Final_cleaning.py *)

T_Moved == <<"3", "0", "1", " ", "M", "o", "v", "e", "d", " ", "P", "e", "r", "m",
             "a", "n", "e", "n", "t", "l", "y">>
T_Robot == <<"R", "o", "b", "o", "t", " ", "C", "h", "e", "c", "k">>
T_Sorry == <<"S", "o", "r", "r", "y", "!", " ", "S", "o", "m", "e", "t", "h", "i",
             "n", "g", " ", "w", "e", "n", "t", " ", "w", "r", "o", "n", "g", "!">>
T_NoTitle == <<"N", "o", " ", "T", "i", "t", "l", "e", " ", "F", "o", "u", "n", "d">>
T_NoPrice == <<"N", "o", " ", "P", "r", "i", "c", "e", " ", "F", "o", "u", "n", "d">>

ErrorTitles == {T_Moved, T_Robot, T_Sorry, T_NoTitle}

L_amazon_prime == <<"a", "m", "a", "z", "o", "n", " ", "p", "r", "i", "m", "e">>
L_amazon_prime_day == <<"a", "m", "a", "z", "o", "n", " ", "p", "r", "i", "m", "e",
                        " ", "d", "a", "y">>
L_prime == <<"p", "r", "i", "m", "e">>
L_amazon_best_sellers == <<"a", "m", "a", "z", "o", "n", " ", "b", "e", "s", "t", " ",
                           "s", "e", "l", "l", "e", "r", "s">>
L_best_sellers == <<"b", "e", "s", "t", " ", "s", "e", "l", "l", "e", "r", "s">>
L_cyber_monday == <<"c", "y", "b", "e", "r", " ", "m", "o", "n", "d", "a", "y">>
L_black_friday == <<"b", "l", "a", "c", "k", " ", "f", "r", "i", "d", "a", "y">>
L_error_page == <<"e", "r", "r", "o", "r", " ", "p", "a", "g", "e">>

PromoTitles == {L_amazon_prime, L_amazon_prime_day, L_prime, L_amazon_best_sellers,
                L_best_sellers, L_cyber_monday, L_black_friday, L_error_page}

MinKeptPrice == 99
YearLikePrices == {2020, 2021, 2022, 2023, 2024, 1996}

\* the price step of the normaliser (Final_cleaning.py lines 28-35)
NormalizePriceAlwaysParsed(p) ==
    IF p.tag = "str"
    THEN LET t == Strip(RemoveChar(RemoveChar(p.s, "$"), ","))
             f == ParseFloat(t)
         IN  IF f.ok THEN PNum(f.num) ELSE PNull
    ELSE p

NormalizePrice(p) ==
    IF p.tag = "str"
    THEN LET t == Strip(RemoveChar(RemoveChar(p.s, "$"), ","))
         IN  IF IsDigitText(t) \/ HasChar(t, ".")
             THEN LET f == ParseFloat(t)
                  IN  IF f.ok THEN PNum(f.num) ELSE PNull
             ELSE PStr(t)
    ELSE p

\* dateutil's parser.parse followed by isoformat(), on the timestamps the model
\* draws: "YYYY-MM-DD HH:MM:SS" with either ' ' or 'T' between date and time
\* parses; a text holding no date raises ParserError, a ValueError.
TwoDigits(s, i) == 10 * DigitVal(s[i]) + DigitVal(s[i + 1])
IsLeapYear(y) == (y % 4 = 0 /\ y % 100 # 0) \/ y % 400 = 0
DaysInMonth(y, mo) ==
    IF mo = 2 THEN (IF IsLeapYear(y) THEN 29 ELSE 28)
    ELSE IF mo \in {4, 6, 9, 11} THEN 30 ELSE 31
IsDateTimeText(s) ==
    /\ Len(s) = 19
    /\ \A i \in {1, 2, 3, 4, 6, 7, 9, 10, 12, 13, 15, 16, 18, 19} : IsDigitChar(s[i])
    /\ s[5] = "-" /\ s[8] = "-" /\ s[14] = ":" /\ s[17] = ":"
    /\ s[11] \in {" ", "T"}
    /\ TwoDigits(s, 6) \in 1..12
    /\ TwoDigits(s, 9) \in 1..DaysInMonth(100 * TwoDigits(s, 1) + TwoDigits(s, 3),
                                         TwoDigits(s, 6))
    /\ TwoDigits(s, 12) \in 0..23 /\ TwoDigits(s, 15) \in 0..59
    /\ TwoDigits(s, 18) \in 0..59
IsoFormat(s) == [s EXCEPT ![11] = "T"]

\* the fetch_time step of the normaliser (lines 38-43)
NormalizeFetchTime(ft) ==
    IF ft.tag = "str" /\ ft.s # NoText
    THEN IF IsDateTimeText(ft.s) THEN FStr(IsoFormat(ft.s)) ELSE FNull
    ELSE ft

Normalize(item) ==
    [item EXCEPT !.price = NormalizePrice(item.price),
                 !.fetch_time = NormalizeFetchTime(item.fetch_time)]

\* the filter condition (lines 46-51)
PriceAcceptedNoYears(p) ==
    \/ p.tag = "absent"
    \/ p.tag = "num" /\ NumGE(p.num, MinKeptPrice)

PriceAccepted(p) ==
    \/ p.tag = "absent"
    \/ /\ p.tag = "num"
       /\ NumGE(p.num, MinKeptPrice)
       /\ ~NumIn(p.num, YearLikePrices)

KeepNeedsFetchTime(item) ==
    /\ item.title \notin ErrorTitles
    /\ Lower(item.title) \notin PromoTitles
    /\ PriceAccepted(item.price)
    /\ item.fetch_time.tag = "str"

Keep(item) ==
    /\ item.title \notin ErrorTitles
    /\ Lower(item.title) \notin PromoTitles
    /\ PriceAccepted(item.price)

\* a line of an input file: a JSON object, or text json.loads rejects
JsonLine(item) == [ok |-> TRUE, item |-> item]
BadLine ==
    [ok |-> FALSE,
     item |-> [title |-> NoText, price |-> PAbsent, fetch_time |-> FAbsent, url |-> ""]]

AtLine == cpc = "loop" /\ fi <= Len(input_files) /\ li <= Len(input_files[fi])

RECURSIVE NextPos(_, _, _)
\* the position of the next line at or after (f, l), skipping exhausted files
NextPos(files, f, l) ==
    IF f > Len(files) \/ l <= Len(files[f]) THEN <<f, l>>
    ELSE NextPos(files, f + 1, 1)

\* one iteration of the loop over the lines (lines 23-54)
CleanLine ==
    /\ AtLine
    /\ LET line == input_files[fi][li]
           item == Normalize(line.item)
           pos == NextPos(input_files, fi, li + 1)
       IN  /\ IF line.ok
              THEN /\ seen_items' = Append(seen_items, item)
                   /\ filtered_data' =
                        IF Keep(item) THEN Append(filtered_data, item)
                        ELSE filtered_data
              ELSE UNCHANGED <<seen_items, filtered_data>>
           /\ fi' = pos[1]
           /\ li' = pos[2]
    /\ UNCHANGED <<input_files, cpc, cleaned>>
    /\ UNCHANGED <<analysisVars, extractVars, stageVars>>

\* json.dump of the result (lines 57-58)
CleanDump ==
    /\ cpc = "loop"
    /\ fi > Len(input_files)
    /\ cleaned' = filtered_data
    /\ cpc' = "done"
    /\ UNCHANGED <<input_files, fi, li, filtered_data, seen_items>>
    /\ UNCHANGED <<analysisVars, extractVars, stageVars>>

-----------------------------------------------------------------------------
(* Analysis.py *)

LOW_PRICE_THRESHOLD == 300
MID_PRICE_THRESHOLD == 700
MinTierPrice == 100

Tiers == <<"low", "mid", "high">>
TierSet == {"low", "mid", "high"}

\* the characters of the model in code-point order, for comparing year keys
AsciiOrder == <<"\t", "\n", " ", "!", "$", ",", "-", ".", "/">> \o DigitChars
              \o <<":">> \o UpperChars \o LowerChars
CharRank(c) == CHOOSE i \in DOMAIN AsciiOrder : AsciiOrder[i] = c

\* a < b for Python strings
TextLess(a, b) ==
    \E i \in 1..(Len(a) + 1) :
        /\ i <= Len(b)
        /\ \A j \in 1..(i - 1) : a[j] = b[j]
        /\ (i = Len(a) + 1 \/ CharRank(a[i]) < CharRank(b[i]))

RECURSIVE SortedTexts(_)
\* sorted(S)
SortedTexts(S) ==
    IF S = {} THEN << >>
    ELSE LET lo == CHOOSE x \in S : \A y \in S \ {x} : TextLess(x, y)
         IN  <<lo>> \o SortedTexts(S \ {lo})

\* round(num / den) to the nearest integer, ties to even, den > 0: Python's
\* round() on the exact quotient
RoundHalfEven(num, den) ==
    LET q == num \div den
        r == num % den
    IN  IF 2 * r < den THEN q
        ELSE IF 2 * r > den THEN q + 1
        ELSE IF q % 2 = 0 THEN q ELSE q + 1

\* round(d, 2) of a decimal, in hundredths
RoundToCents(d) == RoundHalfEven(d.m * 100, Pow10(d.k))

MaxOf(S) == CHOOSE x \in S : \A y \in S : y <= x
MinOf(S) == CHOOSE x \in S : \A y \in S : x <= y

RECURSIVE SumScaled(_, _)
\* the sum of the decimals of a list, in units of 10^-K
SumScaled(prices, K) ==
    IF prices = << >> THEN 0
    ELSE Head(prices).m * Pow10(K - Head(prices).k) + SumScaled(Tail(prices), K)

NullStats == [null |-> TRUE, average |-> 0, max |-> 0, min |-> 0]

\* calculate_statistics (lines 22-33); average, max and min are in hundredths.
\* stdev is left out: it needs a square root, and nothing below reads it.
calculate_statistics_zero_for_empty(prices) ==
    LET K == MaxOf({prices[i].k : i \in DOMAIN prices} \cup {2})
        cents == {RoundToCents(prices[i]) : i \in DOMAIN prices} \cup {0}
    IN  [null |-> FALSE,
         average |-> IF prices = << >> THEN 0
                     ELSE RoundHalfEven(SumScaled(prices, K) * 100,
                                        Len(prices) * Pow10(K)),
         max |-> MaxOf(cents),
         min |-> MinOf(cents)]

calculate_statistics(prices) ==
    IF prices = << >> THEN NullStats
    ELSE LET K == MaxOf({prices[i].k : i \in DOMAIN prices} \cup {2})
             cents == {RoundToCents(prices[i]) : i \in DOMAIN prices}
         IN  [null |-> FALSE,
              average |-> RoundHalfEven(SumScaled(prices, K) * 100,
                                        Len(prices) * Pow10(K)),
              max |-> MaxOf(cents),
              min |-> MinOf(cents)]

\* the tier of a price (lines 75-80); "none" when no branch is taken
TierOfClosedLow(price) ==
    IF NumGE(price, MinTierPrice) /\ ~NumGE(price, LOW_PRICE_THRESHOLD) THEN "low"
    ELSE IF NumGE(price, LOW_PRICE_THRESHOLD) /\ NumLE(price, MID_PRICE_THRESHOLD)
         THEN "mid"
    ELSE IF NumGT(price, MID_PRICE_THRESHOLD) THEN "high"
    ELSE "none"

TierOf(price) ==
    IF NumGE(price, MinTierPrice) /\ NumLE(price, LOW_PRICE_THRESHOLD) THEN "low"
    ELSE IF NumGT(price, LOW_PRICE_THRESHOLD) /\ NumLE(price, MID_PRICE_THRESHOLD)
         THEN "mid"
    ELSE IF NumGT(price, MID_PRICE_THRESHOLD) THEN "high"
    ELSE "none"

EmptySegments == [low |-> << >>, mid |-> << >>, high |-> << >>]

\* record.get('fetch_time') is falsy
NoFetchTime(ft) == ft.tag # "str" \/ ft.s = NoText
\* record.get('price') is None
NoPrice(p) == p.tag \in {"absent", "null"}
\* fetch_time[:4]
YearOf(ft) == SubSeq(ft.s, 1, IF Len(ft.s) < 4 THEN Len(ft.s) ELSE 4)

\* json.loads of the input file (lines 40-53)
AnalyzeLoad ==
    /\ apc = "idle"
    /\ cpc = "done"
    /\ records' = cleaned
    /\ ri' = 1
    /\ apc' = "segment"
    /\ UNCHANGED <<yearly_price_segments, yearly_segment_summary, inflation_summary,
                   inflation_analysis>>
    /\ UNCHANGED <<cleanVars, extractVars, stageVars>>

\* the segments after appending price to segments[year][tier]
Segmented(segments, year, tier, price) ==
    LET old == IF year \in DOMAIN segments THEN segments[year] ELSE EmptySegments
        new == [old EXCEPT ![tier] = Append(old[tier], price)]
    IN  [y \in DOMAIN segments \cup {year} |-> IF y = year THEN new ELSE segments[y]]

\* one iteration of the loop over the records (lines 62-80)
AnalyzeRecord ==
    /\ apc = "segment"
    /\ ri <= Len(records)
    /\ LET record == records[ri]
       IN  yearly_price_segments' =
             IF NoFetchTime(record.fetch_time) \/ NoPrice(record.price)
                \/ TierOf(record.price.num) = "none"
             THEN yearly_price_segments
             ELSE Segmented(yearly_price_segments, YearOf(record.fetch_time),
                            TierOf(record.price.num), record.price.num)
    /\ ri' = ri + 1
    /\ UNCHANGED <<apc, records, yearly_segment_summary, inflation_summary,
                   inflation_analysis>>
    /\ UNCHANGED <<cleanVars, extractVars, stageVars>>

\* the statistics of every segment of every year (lines 83-85)
AnalyzeStats ==
    /\ apc = "segment"
    /\ ri > Len(records)
    /\ yearly_segment_summary' =
         [y \in DOMAIN yearly_price_segments |->
            [t \in TierSet |-> calculate_statistics(yearly_price_segments[y][t])]]
    /\ apc' = "stats"
    /\ UNCHANGED <<records, ri, yearly_price_segments, inflation_summary,
                   inflation_analysis>>
    /\ UNCHANGED <<cleanVars, extractVars, stageVars>>

NullRate == [null |-> TRUE, rate |-> 0]
Rate(r) == [null |-> FALSE, rate |-> r]

\* round(inflation_rate, 2) in hundredths of a percent, for averages in hundredths
RoundedRate(prev_avg, curr_avg) ==
    RoundHalfEven((curr_avg - prev_avg) * 10000, prev_avg)

\* the value stored in inflation_summary[current_year][segment] (lines 96-106)
InflationEntry(prev, curr) ==
    IF ~prev.null /\ ~curr.null /\ prev.average # 0
    THEN Rate(RoundedRate(prev.average, curr.average))
    ELSE NullRate

AbsInt(n) == IF n < 0 THEN 0 - n ELSE n

\* the sentences appended for one (previous_year, current_year, segment) (lines 98-104)
SentencesOnRounded(py, cy, segment, prev, curr) ==
    IF ~prev.null /\ ~curr.null /\ prev.average # 0
       /\ RoundedRate(prev.average, curr.average) # 0
    THEN <<[dir |-> IF curr.average > prev.average THEN "increased" ELSE "decreased",
            from |-> py, to |-> cy, segment |-> segment,
            by |-> AbsInt(RoundedRate(prev.average, curr.average))]>>
    ELSE << >>

Sentences(py, cy, segment, prev, curr) ==
    IF ~prev.null /\ ~curr.null /\ prev.average # 0
    THEN IF curr.average > prev.average
         THEN <<[dir |-> "increased", from |-> py, to |-> cy, segment |-> segment,
                 by |-> RoundedRate(prev.average, curr.average)]>>
         ELSE IF curr.average < prev.average
         THEN <<[dir |-> "decreased", from |-> py, to |-> cy, segment |-> segment,
                 by |-> AbsInt(RoundedRate(prev.average, curr.average))]>>
         ELSE << >>
    ELSE << >>

RECURSIVE YearSentences(_, _, _)
\* the sentences of the years sorted_years[i..], in loop order
YearSentences(summary, sorted_years, i) ==
    IF i > Len(sorted_years) THEN << >>
    ELSE LET py == sorted_years[i - 1]
             cy == sorted_years[i]
             S(t) == Sentences(py, cy, t, summary[py][t], summary[cy][t])
         IN  S("low") \o S("mid") \o S("high")
             \o YearSentences(summary, sorted_years, i + 1)

\* the loop over consecutive years (lines 88-106)
AnalyzeInflation ==
    /\ apc = "stats"
    /\ LET sorted_years == SortedTexts(DOMAIN yearly_segment_summary)
       IN  /\ inflation_summary' =
                [cy \in {sorted_years[i] : i \in 2..Len(sorted_years)} |->
                   LET i == CHOOSE j \in 2..Len(sorted_years) : sorted_years[j] = cy
                       py == sorted_years[i - 1]
                   IN  [t \in TierSet |->
                          InflationEntry(yearly_segment_summary[py][t],
                                         yearly_segment_summary[cy][t])]]
           /\ inflation_analysis' = YearSentences(yearly_segment_summary, sorted_years, 2)
    /\ apc' = "done"
    /\ UNCHANGED <<records, ri, yearly_price_segments, yearly_segment_summary>>
    /\ UNCHANGED <<cleanVars, extractVars, stageVars>>

-----------------------------------------------------------------------------
(* final_data_extraction_s3.py : extract_product_data *)

\* A parsed document is the sequence of its elements in document order, each
\* [kind, text]: kind names what the selectors look at (an id, or a tag with
\* its class), text is the element's get_text().
TitleKinds == {"#productTitle", "#btAsinTitle", "h1.title", "title", "h1"}
PriceBlockKinds == {"#priceblock_saleprice", "#priceblock_ourprice", "#priceblock_dealprice"}
PriceKinds == PriceBlockKinds \cup {"span.a-price-whole", "span.a-price",
                                    "span#price_inside_buybox"}
NodeKinds == TitleKinds \cup PriceKinds \cup {"div"}

\* select_one / find: the first element of one of the kinds, or none
HasNode(doc, kinds) == \E i \in DOMAIN doc : doc[i].kind \in kinds
FirstNode(doc, kinds) ==
    doc[CHOOSE i \in DOMAIN doc :
            /\ doc[i].kind \in kinds
            /\ \A j \in 1..(i - 1) : doc[j].kind \notin kinds]

RECURSIVE GetText(_)
\* soup.get_text()
GetText(doc) == IF doc = << >> THEN << >> ELSE Head(doc).text \o GetText(Tail(doc))

TitleLabel == <<"T", "i", "t", "l", "e", ":">>

\* re.search(r'Title:\s*(.*)', text): whether it matches, and group(1)
TitleSearch(text) ==
    LET n == Len(TitleLabel)
        hits == {i \in 1..(Len(text) - n + 1) : SubSeq(text, i, i + n - 1) = TitleLabel}
    IN  IF hits = {} THEN [matched |-> FALSE, group |-> NoText]
        ELSE LET i == CHOOSE h \in hits : \A g \in hits : h <= g
                 \* \s* is greedy: the group starts at the first non-space
                 rest == {j \in (i + n)..Len(text) : text[j] \notin WhiteChars}
                 b == IF rest = {} THEN Len(text) + 1
                      ELSE CHOOSE j \in rest : \A g \in rest : j <= g
                 \* . stops at a newline
                 nl == {j \in b..Len(text) : text[j] = "\n"}
                 e == IF nl = {} THEN Len(text)
                      ELSE (CHOOSE j \in nl : \A g \in nl : j <= g) - 1
             IN  [matched |-> TRUE, group |-> SubSeq(text, b, e)]

\* re.compile(r'\d+(?:\.\d{2})?').search(text): whether it matches, and group()
PriceSearch(text) ==
    LET ds == {i \in DOMAIN text : IsDigitChar(text[i])}
    IN  IF ds = {} THEN [matched |-> FALSE, group |-> NoText]
        ELSE LET b == CHOOSE i \in ds : \A g \in ds : i <= g
                 stops == {j \in b..Len(text) : ~IsDigitChar(text[j])}
                 e == IF stops = {} THEN Len(text)
                      ELSE (CHOOSE j \in stops : \A g \in stops : j <= g) - 1
                 cents == /\ e + 3 <= Len(text)
                          /\ text[e + 1] = "."
                          /\ IsDigitChar(text[e + 2])
                          /\ IsDigitChar(text[e + 3])
             IN  [matched |-> TRUE,
                  group |-> SubSeq(text, b, IF cents THEN e + 3 ELSE e)]

\* the title chain (lines 55-70); a Tag is truthy whatever its text
ScrapeTitle(doc) ==
    IF HasNode(doc, {"#productTitle"})
    THEN Strip(FirstNode(doc, {"#productTitle"}).text)
    ELSE IF HasNode(doc, {"#btAsinTitle"})
    THEN Strip(FirstNode(doc, {"#btAsinTitle"}).text)
    ELSE IF HasNode(doc, {"h1.title"})
    THEN Strip(FirstNode(doc, {"h1.title"}).text)
    ELSE IF HasNode(doc, {"title"})
    THEN Strip(FirstNode(doc, {"title"}).text)
    ELSE IF HasNode(doc, {"h1", "h1.title"})
    THEN Strip(FirstNode(doc, {"h1", "h1.title"}).text)
    ELSE IF TitleSearch(GetText(doc)).matched
    THEN Strip(TitleSearch(GetText(doc)).group)
    ELSE NoText

\* the price chain (lines 72-86)
ScrapePrice(doc) ==
    IF HasNode(doc, PriceBlockKinds)
    THEN Strip(FirstNode(doc, PriceBlockKinds).text)
    ELSE IF HasNode(doc, {"span.a-price-whole"})
    THEN Strip(FirstNode(doc, {"span.a-price-whole"}).text)
    ELSE IF HasNode(doc, {"span.a-price"})
    THEN Strip(FirstNode(doc, {"span.a-price"}).text)
    ELSE IF HasNode(doc, {"span#price_inside_buybox"})
    THEN Strip(FirstNode(doc, {"span#price_inside_buybox"}).text)
    ELSE IF PriceSearch(GetText(doc)).matched
    THEN PriceSearch(GetText(doc)).group
    ELSE NoText

\* the first non-empty of a list of texts, or the empty text
RECURSIVE FirstNonEmpty(_)
FirstNonEmpty(ts) ==
    IF ts = << >> THEN NoText
    ELSE IF Head(ts) # NoText THEN Head(ts) ELSE FirstNonEmpty(Tail(ts))

TextOrNone(doc, kinds) ==
    IF HasNode(doc, kinds) THEN Strip(FirstNode(doc, kinds).text) ELSE NoText

extract_product_data_first_text(doc) ==
    LET title == FirstNonEmpty(<<TextOrNone(doc, {"#productTitle"}),
                                 TextOrNone(doc, {"#btAsinTitle"}),
                                 TextOrNone(doc, {"h1.title"}),
                                 TextOrNone(doc, {"title"}),
                                 TextOrNone(doc, {"h1", "h1.title"}),
                                 Strip(TitleSearch(GetText(doc)).group)>>)
        price == FirstNonEmpty(<<TextOrNone(doc, PriceBlockKinds),
                                 TextOrNone(doc, {"span.a-price-whole"}),
                                 TextOrNone(doc, {"span.a-price"}),
                                 TextOrNone(doc, {"span#price_inside_buybox"}),
                                 PriceSearch(GetText(doc)).group>>)
    IN  [title |-> IF title # NoText THEN title ELSE T_NoTitle,
         price |-> IF price # NoText THEN price ELSE T_NoPrice]

extract_product_data_no_sentinel(doc) ==
    [title |-> ScrapeTitle(doc), price |-> ScrapePrice(doc)]

\* extract_product_data (lines 51-92)
extract_product_data(doc) ==
    [title |-> IF ScrapeTitle(doc) # NoText THEN ScrapeTitle(doc) ELSE T_NoTitle,
     price |-> IF ScrapePrice(doc) # NoText THEN ScrapePrice(doc) ELSE T_NoPrice]

\* one call of extract_product_data
NotCalled == [returned |-> FALSE, data |-> [title |-> NoText, price |-> NoText]]
ExtractProductData ==
    /\ product_data = NotCalled
    /\ product_data' = [returned |-> TRUE, data |-> extract_product_data(html_doc)]
    /\ UNCHANGED html_doc
    /\ UNCHANGED <<cleanVars, analysisVars, stageVars>>

-----------------------------------------------------------------------------
(* final_data_extraction_s3.py : extract_data_from_warc, process_parquet_files *)

\* A row of a batch: whether its locator fields are there and convert to int,
\* what the range read of the archive gives ("client_error", another
\* exception, a range with no response record, or a response record), the
\* decoded payload, and the row's url and fetch_time.
NoHtml == [none |-> TRUE, empty |-> FALSE, doc |-> << >>]
Html(empty, doc) == [none |-> FALSE, empty |-> empty, doc |-> doc]

\* extract_data_from_warc (lines 23-48): raised, or the returned value
extract_data_from_warc(row) ==
    IF ~row.locator_ok THEN [raised |-> TRUE, html |-> NoHtml]
    ELSE IF row.resolve = "client_error" THEN [raised |-> FALSE, html |-> NoHtml]
    ELSE IF row.resolve = "other_error" THEN [raised |-> TRUE, html |-> NoHtml]
    ELSE IF row.resolve = "no_response" THEN [raised |-> FALSE, html |-> NoHtml]
    ELSE [raised |-> FALSE, html |-> Html(row.payload_empty, row.doc)]

\* pd.to_datetime(fetch_time, format="%Y-%m-%d %H:%M:%S").isoformat(), or None
\* on ValueError (lines 134-140)
ParseFetchTime(s) ==
    IF IsDateTimeText(s) /\ s[11] = " " THEN FStr(IsoFormat(s)) ELSE FNull

\* any(product_data.values()) (line 142)
AnyValue(rec) ==
    \/ rec.title # NoText
    \/ rec.price # NoText
    \/ rec.url # ""
    \/ (rec.fetch_time.tag = "str" /\ rec.fetch_time.s # NoText)

\* the body of the loop over the rows (lines 123-150): the records appended
RowRecords(row) ==
    LET got == extract_data_from_warc(row)
    IN  IF got.raised THEN << >>
        ELSE IF got.html.none \/ got.html.empty THEN << >>
        ELSE IF ~row.url.has THEN << >>
        ELSE LET scraped == extract_product_data(got.html.doc)
                 ft == row.fetch_time
                 rec == [title |-> scraped.title,
                         price |-> scraped.price,
                         url |-> row.url.s,
                         fetch_time |-> IF ft.tag = "str" /\ ft.s # NoText
                                        THEN ParseFetchTime(ft.s) ELSE FAbsent]
             IN  IF AnyValue(rec) THEN <<rec>> ELSE << >>

ParquetPath(obj) == <<"/tmp", obj.base, "parquet">>
OutputPath(obj) == <<"/tmp", obj.base, "json">>
OutputKey(obj) == obj.base

Logged(i, what) == [batch_log EXCEPT ![i] = what]

\* where the loop over the objects goes after a batch that could not be read
\* or was empty (the continue of lines 114 and 117)
AfterUnreadStop(what) == IF what = "empty" THEN "object" ELSE "done"
AfterUnread(what) == "object"

\* where it goes on an exception outside the inner try blocks (line 173)
AfterUncaught == "done"

\* list_objects_v2 (line 98)
ListObjects ==
    /\ ppc = "list"
    /\ \/ /\ ppc' = "object"
          /\ batch_log' = [i \in DOMAIN listing |-> "pending"]
       \/ /\ ppc' = AfterUncaught
          /\ UNCHANGED batch_log
    /\ UNCHANGED <<listing, oi, rowi, extracted_data, df, tmp_files, uploaded>>
    /\ UNCHANGED <<cleanVars, analysisVars, extractVars>>

AtObject == ppc = "object" /\ oi <= Len(listing)

\* an object whose key does not end in .parquet (lines 171-172)
SkipObject ==
    /\ AtObject
    /\ ~listing[oi].parquet
    /\ batch_log' = Logged(oi, "skipped")
    /\ oi' = oi + 1
    /\ UNCHANGED <<listing, ppc, rowi, extracted_data, df, tmp_files, uploaded>>
    /\ UNCHANGED <<cleanVars, analysisVars, extractVars>>

\* download_file (lines 105-106, 115-117)
DownloadBatch ==
    /\ AtObject
    /\ listing[oi].parquet
    /\ \/ /\ tmp_files' = tmp_files \cup {ParquetPath(listing[oi])}
          /\ ppc' = "read"
          /\ UNCHANGED <<oi, batch_log>>
       \/ /\ batch_log' = Logged(oi, "download_failed")
          /\ ppc' = AfterUnread("download_failed")
          /\ oi' = oi + 1
          /\ UNCHANGED tmp_files
    /\ UNCHANGED <<listing, rowi, extracted_data, df, uploaded>>
    /\ UNCHANGED <<cleanVars, analysisVars, extractVars>>

\* read_parquet and the empty check (lines 109-117)
ReadBatch ==
    /\ ppc = "read"
    /\ LET obj == listing[oi]
       IN  IF ~obj.readable
           THEN /\ batch_log' = Logged(oi, "read_failed")
                /\ ppc' = AfterUnread("read_failed")
                /\ oi' = oi + 1
                /\ UNCHANGED <<df, rowi, extracted_data>>
           ELSE IF obj.rows = << >>
           THEN /\ batch_log' = Logged(oi, "empty")
                /\ ppc' = AfterUnread("empty")
                /\ oi' = oi + 1
                /\ UNCHANGED <<df, rowi, extracted_data>>
           ELSE /\ df' = obj.rows
                /\ rowi' = 1
                /\ extracted_data' = << >>
                /\ ppc' = "rows"
                /\ UNCHANGED <<oi, batch_log>>
    /\ UNCHANGED <<listing, tmp_files, uploaded>>
    /\ UNCHANGED <<cleanVars, analysisVars, extractVars>>

\* one iteration of the loop over the rows (lines 122-150)
ProcessRow ==
    /\ ppc = "rows"
    /\ rowi <= Len(df)
    /\ extracted_data' = extracted_data \o RowRecords(df[rowi])
    /\ rowi' = rowi + 1
    /\ UNCHANGED <<listing, ppc, oi, df, tmp_files, uploaded, batch_log>>
    /\ UNCHANGED <<cleanVars, analysisVars, extractVars>>

\* writing the output file (lines 153-160); open or a write may raise
WriteOutput ==
    /\ ppc = "rows"
    /\ rowi > Len(df)
    /\ \/ /\ tmp_files' = tmp_files \cup {OutputPath(listing[oi])}
          /\ ppc' = "upload"
          /\ UNCHANGED batch_log
       \/ /\ \/ tmp_files' = tmp_files \cup {OutputPath(listing[oi])}
             \/ tmp_files' = tmp_files
          /\ batch_log' = Logged(oi, "write_failed")
          /\ ppc' = AfterUncaught
    /\ UNCHANGED <<listing, oi, rowi, extracted_data, df, uploaded>>
    /\ UNCHANGED <<cleanVars, analysisVars, extractVars>>

\* upload_file (lines 163-165)
UploadOutput ==
    /\ ppc = "upload"
    /\ \/ /\ uploaded' =
               [k \in DOMAIN uploaded \cup {OutputKey(listing[oi])} |->
                  IF k = OutputKey(listing[oi]) THEN extracted_data ELSE uploaded[k]]
          /\ ppc' = "remove"
          /\ UNCHANGED batch_log
       \/ /\ batch_log' = Logged(oi, "upload_failed")
          /\ ppc' = AfterUncaught
          /\ UNCHANGED uploaded
    /\ UNCHANGED <<listing, oi, rowi, extracted_data, df, tmp_files>>
    /\ UNCHANGED <<cleanVars, analysisVars, extractVars>>

\* the two os.remove calls (lines 168-169); either may raise
RemoveLocal ==
    /\ ppc = "remove"
    /\ \/ /\ tmp_files' = tmp_files \ {ParquetPath(listing[oi]), OutputPath(listing[oi])}
          /\ batch_log' = Logged(oi, "processed")
          /\ oi' = oi + 1
          /\ ppc' = "object"
       \/ /\ \/ tmp_files' = tmp_files
             \/ tmp_files' = tmp_files \ {ParquetPath(listing[oi])}
          /\ batch_log' = Logged(oi, "remove_failed")
          /\ ppc' = AfterUncaught
          /\ UNCHANGED oi
    /\ UNCHANGED <<listing, rowi, extracted_data, df, uploaded>>
    /\ UNCHANGED <<cleanVars, analysisVars, extractVars>>

\* the end of the loop over the objects
Finish ==
    /\ ppc = "object"
    /\ oi > Len(listing)
    /\ ppc' = "done"
    /\ UNCHANGED <<listing, oi, rowi, extracted_data, df, tmp_files, uploaded, batch_log>>
    /\ UNCHANGED <<cleanVars, analysisVars, extractVars>>

-----------------------------------------------------------------------------
(* Inputs *)

MaxPriceLen == 3
MaxLines == 2
MaxFiles == 2
MaxRecords == 3

UpperChar(c) ==
    IF \E i \in DOMAIN LowerChars : LowerChars[i] = c
    THEN UpperChars[CHOOSE i \in DOMAIN LowerChars : LowerChars[i] = c]
    ELSE c
Upper(s) == [i \in DOMAIN s |-> UpperChar(s[i])]

T_Widget == <<"W", "i", "d", "g", "e", "t">>
T_BlackFriday == <<"B", "l", "a", "c", "k", " ", "F", "r", "i", "d", "a", "y">>
T_PrimeDeals == <<"p", "r", "i", "m", "e", " ", "d", "e", "a", "l", "s">>

InputTitles ==
    ErrorTitles \cup {Lower(t) : t \in ErrorTitles} \cup PromoTitles
    \cup {Upper(t) : t \in PromoTitles} \cup {T_Widget, T_BlackFriday, T_PrimeDeals}

P_1299 == <<"$", "1", ",", "2", "9", "9", ".", "0", "0">>
P_150 == <<"$", "1", "5", "0">>
P_400 == <<"$", "4", "0", "0", ".", "0", "0">>

ListedPrices ==
    {PAbsent, PNull, PStr(P_1299), PStr(P_150), PStr(T_NoPrice),
     PStr(<<"2", "0", "2", "1">>), PStr(<<"$", "2", ",", "0", "2", "1", ".", "0", "0">>), PStr(<<"2", "0", "2", "1", ".", "5">>),
     PStr(<<"1", "9", "9", "6">>), PStr(<<"9", "8", ".", "9", "9">>), PStr(<<" ", "9", "9", " ">>),
     PStr(<<"1", "2", ".", "5", ".", "1">>), PStr(<<"-", "1", "5", "0", ".", "0">>), PStr(<<"U", "S", "D", " ", "1", "5", "0">>),
     PNum(Cents(9899)), PNum(Cents(9901)), PNum(Cents(202150)), PNum(Whole(0))}
    \cup {PNum(Whole(n)) : n \in YearLikePrices \cup {99, 150, 1997, 2019, 2025}}

PriceAlphabet == {"1", "9", ".", "$", ",", "-", "x", " "}
GeneratedPrices ==
    UNION {{PStr(t) : t \in [1..n -> PriceAlphabet]} : n \in 0..MaxPriceLen}

F_2021 == <<"2", "0", "2", "1", "-", "0", "6", "-", "3", "0", " ", "2", "3", ":", "5", "9", ":", "5", "9">>
F_2022 == <<"2", "0", "2", "2", "-", "0", "1", "-", "0", "5", " ", "1", "0", ":", "0", "0", ":", "0", "0">>
F_2023 == <<"2", "0", "2", "3", "-", "0", "1", "-", "0", "5", "T", "1", "0", ":", "0", "0", ":", "0", "0">>
F_Unknown == <<"u", "n", "k", "n", "o", "w", "n">>

ItemAt(t, p, f, u) == [title |-> t, price |-> p, fetch_time |-> f, url |-> u]
Item(t, p, f) == ItemAt(t, p, f, "u")

\* one file holding one line: every title with every listed price, and every
\* generated price text under an ordinary title
WideLines ==
    {JsonLine(Item(t, p, FStr(F_2023))) : t \in InputTitles, p \in ListedPrices}
    \cup {JsonLine(Item(T_Widget, p, FStr(F_2022))) : p \in GeneratedPrices}

\* the lines of the end-to-end runs
PipelineLines ==
    {JsonLine(ItemAt(T_Widget, PStr(P_150), FStr(F_2022), "u1")),
     JsonLine(ItemAt(T_Widget, PStr(P_400), FStr(F_2023), "u2")),
     JsonLine(ItemAt(T_Widget, PStr(P_150), FAbsent, "u3")),
     JsonLine(ItemAt(T_Widget, PStr(P_1299), FNull, "u4")),
     JsonLine(ItemAt(T_Widget, PStr(P_400), FStr(NoText), "u5")),
     JsonLine(ItemAt(T_Widget, PStr(P_150), FStr(F_Unknown), "u6")),
     JsonLine(ItemAt(T_NoTitle, PStr(P_150), FStr(F_2023), "u7")),
     BadLine}

RECURSIVE Flatten(_)
Flatten(files) == IF files = << >> THEN << >> ELSE Head(files) \o Flatten(Tail(files))

SeqsUpTo(S, n) == UNION {[1..k -> S] : k \in 0..n}

\* the files cut out of a sequence of lines at the given places
SplitAt(ls, cuts) ==
    [i \in 1..(Len(cuts) + 1) |->
        SubSeq(ls, (IF i = 1 THEN 0 ELSE cuts[i - 1]) + 1,
                   IF i = Len(cuts) + 1 THEN Len(ls) ELSE cuts[i])]
CutsOf(n) ==
    UNION {{c \in [1..f -> 0..n] : \A i \in 1..(f - 1) : c[i] <= c[i + 1]} :
             f \in 0..(MaxFiles - 1)}

\* one to MaxFiles files holding at most MaxLines lines between them
PipelineInputs ==
    UNION {{SplitAt(ls, c) : c \in CutsOf(Len(ls))} :
             ls \in SeqsUpTo(PipelineLines, MaxLines)}

R(cents, f) == Item(T_Widget, PNum(Cents(cents)), f)
AnalysisRecords ==
    {R(10000, FStr(IsoFormat(F_2022))), R(25000, FStr(IsoFormat(F_2022))),
     R(30000, FStr(IsoFormat(F_2022))), R(70001, FStr(IsoFormat(F_2022))),
     R(9950, FStr(F_2023)), R(25001, FStr(F_2023)), R(25000, FStr(F_2023)),
     R(30001, FStr(F_2023)), R(70000, FStr(F_2023)), R(15000, FStr(F_2023)),
     R(15000, FStr(IsoFormat(F_2021))), R(25000, FNull),
     Item(T_Widget, PAbsent, FStr(F_2023))}

MaxNodes == 2

X_Empty == << >>
X_Blank == <<" ", "\n">>
X_Name == <<" ", "A", "b", " ">>
X_Labelled == <<"T", "i", "t", "l", "e", ":", " ", "C">>
X_Amount == <<"$", "7", ".", "5", "0", " ">>
NodeTexts == {X_Empty, X_Blank, X_Name, X_Labelled, X_Amount}
Nodes == {[kind |-> k, text |-> t] : k \in NodeKinds, t \in NodeTexts}
Documents == SeqsUpTo(Nodes, MaxNodes)

MaxRows == 2
MaxObjects == 2

D_Product == <<[kind |-> "#productTitle", text |-> X_Name],
               [kind |-> "span.a-price", text |-> X_Amount]>>
D_BlankTitle == <<[kind |-> "#productTitle", text |-> X_Blank]>>
D_Nothing == <<[kind |-> "div", text |-> X_Empty]>>

Url(u) == [has |-> TRUE, s |-> u]
NoUrl == [has |-> FALSE, s |-> ""]
F_Row == <<"2", "0", "2", "3", "-", "0", "1", "-", "0", "5", " ", "1", "0", ":", "0", "0", ":", "0", "0">>

Row(ok, res, empty, doc, url, ft) ==
    [locator_ok |-> ok, resolve |-> res, payload_empty |-> empty, doc |-> doc,
     url |-> url, fetch_time |-> ft]

GoodRow(u) == Row(TRUE, "response", FALSE, D_Product, Url(u), FStr(F_Row))

InputRows ==
    {GoodRow("u1"), GoodRow("u2"),
     Row(TRUE, "response", FALSE, D_BlankTitle, Url("u3"), FStr(F_2023)),
     Row(TRUE, "response", FALSE, D_Nothing, Url(""), FAbsent),
     Row(TRUE, "response", FALSE, D_Nothing, Url(""), FStr(NoText)),
     Row(TRUE, "response", FALSE, D_Product, NoUrl, FStr(F_Row)),
     Row(TRUE, "response", TRUE, << >>, Url("u4"), FStr(F_Row)),
     Row(TRUE, "no_response", FALSE, << >>, Url("u5"), FStr(F_Row)),
     Row(TRUE, "client_error", FALSE, << >>, Url("u6"), FStr(F_Row)),
     Row(TRUE, "other_error", FALSE, << >>, Url("u7"), FStr(F_Row)),
     Row(FALSE, "response", FALSE, D_Product, Url("u8"), FNull)}

Object(parquet, base, readable, rows) ==
    [parquet |-> parquet, base |-> base, readable |-> readable, rows |-> rows]

\* one batch with every choice of rows
WideListings ==
    {<<Object(TRUE, "a", TRUE, rows)>> : rows \in SeqsUpTo(InputRows, MaxRows)}

\* several objects, some of them sharing a base name
StageObjects ==
    {Object(FALSE, "readme", TRUE, << >>),
     Object(TRUE, "a", TRUE, <<GoodRow("u1")>>),
     Object(TRUE, "a", TRUE, <<Row(TRUE, "other_error", FALSE, << >>, Url("u7"), FNull),
                               GoodRow("u2")>>),
     Object(TRUE, "b", TRUE, << >>),
     Object(TRUE, "b", FALSE, << >>),
     Object(TRUE, "b", TRUE, <<GoodRow("u2")>>)}
StageListings == SeqsUpTo(StageObjects, MaxObjects)

CleanOff ==
    /\ input_files = << >> /\ cpc = "off" /\ fi = 1 /\ li = 1
    /\ filtered_data = << >> /\ seen_items = << >> /\ cleaned = << >>
CleanStart(files) ==
    /\ input_files = files /\ cpc = "loop"
    /\ fi = NextPos(files, 1, 1)[1] /\ li = NextPos(files, 1, 1)[2]
    /\ filtered_data = << >> /\ seen_items = << >> /\ cleaned = << >>
AnalysisAt(pc) ==
    /\ apc = pc /\ records = << >> /\ ri = 1
    /\ yearly_price_segments = << >> /\ yearly_segment_summary = << >>
    /\ inflation_summary = << >> /\ inflation_analysis = << >>
ExtractOff == html_doc = << >> /\ product_data = NotCalled
StageOff ==
    /\ listing = << >> /\ ppc = "off" /\ oi = 1 /\ rowi = 1
    /\ extracted_data = << >> /\ df = << >> /\ tmp_files = {}
    /\ uploaded = << >> /\ batch_log = << >>

\* extract_product_data on one document
InitExtract ==
    /\ html_doc \in Documents /\ product_data = NotCalled
    /\ CleanOff /\ AnalysisAt("off") /\ StageOff
NextExtract == ExtractProductData
SpecExtract == InitExtract /\ [][NextExtract]_vars

\* process_parquet_files on one listing
InitStage ==
    /\ listing \in WideListings \cup StageListings
    /\ ppc = "list" /\ oi = 1 /\ rowi = 1
    /\ extracted_data = << >> /\ df = << >> /\ tmp_files = {}
    /\ uploaded = << >> /\ batch_log = << >>
    /\ CleanOff /\ AnalysisAt("off") /\ ExtractOff
NextStage ==
    \/ ListObjects \/ SkipObject \/ DownloadBatch \/ ReadBatch \/ ProcessRow
    \/ WriteOutput \/ UploadOutput \/ RemoveLocal \/ Finish
SpecStage == InitStage /\ [][NextStage]_vars

\* clean_data on one file of one line
InitClean ==
    /\ \E l \in WideLines : CleanStart(<<(<<l>>)>>)
    /\ AnalysisAt("off") /\ ExtractOff /\ StageOff
NextClean == CleanLine \/ CleanDump
SpecClean == InitClean /\ [][NextClean]_vars

\* analyze_data on a cleaned dataset
InitAnalysis ==
    /\ input_files = << >> /\ cpc = "done" /\ fi = 1 /\ li = 1
    /\ filtered_data = << >> /\ seen_items = << >>
    /\ cleaned \in SeqsUpTo(AnalysisRecords, MaxRecords)
    /\ AnalysisAt("idle") /\ ExtractOff /\ StageOff
NextAnalysis == AnalyzeLoad \/ AnalyzeRecord \/ AnalyzeStats \/ AnalyzeInflation
SpecAnalysis == InitAnalysis /\ [][NextAnalysis]_vars

\* clean_data on several files, then analyze_data on what it wrote
InitPipeline ==
    /\ \E fs \in PipelineInputs : CleanStart(fs)
    /\ AnalysisAt("idle") /\ ExtractOff /\ StageOff
NextPipeline ==
    \/ CleanLine \/ CleanDump
    \/ AnalyzeLoad \/ AnalyzeRecord \/ AnalyzeStats \/ AnalyzeInflation
SpecPipeline == InitPipeline /\ [][NextPipeline]_vars

-----------------------------------------------------------------------------
(* Properties of clean_data *)

\* the raw item of every line json.loads accepted, in file and line order
RawParsed ==
    LET ok == SelectSeq(Flatten(input_files), LAMBDA l : l.ok)
    IN  [i \in DOMAIN ok |-> ok[i].item]

\* the three retention conditions, on a normalised item
ClaimedRetained(item) ==
    /\ item.title \notin {T_Moved, T_Robot, T_Sorry, T_NoTitle}
    /\ Lower(item.title) \notin
         {L_amazon_prime, L_amazon_prime_day, L_prime, L_amazon_best_sellers,
          L_best_sellers, L_cyber_monday, L_black_friday, L_error_page}
    /\ \/ item.price.tag = "absent"
       \/ /\ item.price.tag = "num"
          /\ item.price.num.m >= 99 * Pow10(item.price.num.k)
          /\ item.price.num \notin {Whole(2020), Whole(2021), Whole(2022),
                                    Whole(2023), Whole(2024), Whole(1996)}

\* C1: a normalised record is appended to the output if and only if its title
\* is none of the four error titles, its lowercased title is none of the eight
\* promotional titles, and its price is absent or a number >= 99 that is not
\* one of 2020..2024, 1996; so "black friday" in any case and price 2021 are
\* rejected.
C1_RetainedIff ==
    /\ filtered_data = SelectSeq(seen_items, ClaimedRetained)
    /\ \A i \in DOMAIN seen_items :
         (Lower(seen_items[i].title) = L_black_friday
          \/ seen_items[i].price = PNum(Whole(2021)))
         => \A j \in DOMAIN filtered_data : filtered_data[j] # seen_items[i]
    /\ cpc = "done" => cleaned = filtered_data

C1_Witness ==
    /\ cpc = "done"
    /\ Len(seen_items) = 1
    /\ seen_items[1].title = T_BlackFriday
    /\ seen_items[1].price = PNum(Whole(150))
    /\ cleaned = << >>

\* the raw price text with '$' and ',' removed and the ends stripped
PriceText(p) == Strip(RemoveChar(RemoveChar(p.s, "$"), ","))

\* C3 as stated: a raw price that is a string becomes the parsed number, or
\* null when the text does not parse; it never remains text.
C3_NeverText ==
    \A i \in DOMAIN seen_items :
        RawParsed[i].price.tag = "str" =>
            LET f == ParseFloat(PriceText(RawParsed[i].price))
            IN  seen_items[i].price = IF f.ok THEN PNum(f.num) ELSE PNull

\* C3 amended: a raw price that is a string becomes the parsed number, or null
\* when the text does not parse, only if the stripped text is all digits or
\* holds a '.'; any other text (the sentinel "No Price Found", "-5", "")
\* remains the stripped text.
C3_TextUnlessDigitsOrDot ==
    \A i \in DOMAIN seen_items :
        RawParsed[i].price.tag = "str" =>
            LET t == PriceText(RawParsed[i].price)
                f == ParseFloat(t)
            IN  /\ (IsDigitText(t) \/ HasChar(t, ".")) /\ f.ok
                     => seen_items[i].price = PNum(f.num)
                /\ (IsDigitText(t) \/ HasChar(t, ".")) /\ ~f.ok
                     => seen_items[i].price = PNull
                /\ ~(IsDigitText(t) \/ HasChar(t, "."))
                     => seen_items[i].price = PStr(t)
                /\ RawParsed[i].price = PStr(P_1299)
                     => seen_items[i].price = PNum(Whole(1299))

C3_Witness ==
    /\ Len(seen_items) = 1
    /\ RawParsed[1].price = PStr(P_1299)
    /\ seen_items[1].price = PNum(Whole(1299))
    /\ filtered_data = seen_items

-----------------------------------------------------------------------------
(* Properties of analyze_data *)

\* the records the segmentation loop has been through
Processed == SubSeq(records, 1, ri - 1)

\* the tier the thresholds give a price, "none" below 100
ClaimedTier(d) ==
    IF d.m < 100 * Pow10(d.k) THEN "none"
    ELSE IF d.m <= 300 * Pow10(d.k) THEN "low"
    ELSE IF d.m <= 700 * Pow10(d.k) THEN "mid"
    ELSE "high"

HasBoth(r) ==
    /\ r.fetch_time.tag = "str" /\ r.fetch_time.s # NoText
    /\ r.price.tag = "num"

\* the prices of the records of rs with both fields, year y and tier t, in order
ClaimedBucket(rs, y, t) ==
    LET sel == SelectSeq(rs, LAMBDA r : /\ HasBoth(r)
                                        /\ SubSeq(r.fetch_time.s, 1, 4) = y
                                        /\ ClaimedTier(r.price.num) = t)
    IN  [i \in DOMAIN sel |-> sel[i].price.num]

\* the years with a record of both fields whose price is at least 100
ClaimedYears(rs) ==
    {SubSeq(rs[i].fetch_time.s, 1, 4) :
        i \in {j \in DOMAIN rs : HasBoth(rs[j]) /\ ClaimedTier(rs[j].price.num) # "none"}}

SegmentsStarted == apc \in {"segment", "stats", "done"}

\* C4: every record with fetch_time and price puts its price in exactly one
\* tier list of the bucket of its year when price >= 100 (low: [100,300],
\* mid: (300,700], high: above 700) and in no list when price < 100; no price
\* is in two tiers or in another year's bucket.
C4_OneTierOfItsYear ==
    SegmentsStarted =>
        /\ DOMAIN yearly_price_segments = ClaimedYears(Processed)
        /\ \A y \in DOMAIN yearly_price_segments : \A t \in TierSet :
             yearly_price_segments[y][t] = ClaimedBucket(Processed, y, t)

C4_Witness ==
    /\ apc = "segment"
    /\ ri = 4
    /\ records = <<R(9950, FStr(F_2023)), R(30000, FStr(IsoFormat(F_2022))),
                   R(30001, FStr(F_2023))>>
    /\ DOMAIN yearly_price_segments = {SubSeq(F_2022, 1, 4), SubSeq(F_2023, 1, 4)}
    /\ yearly_price_segments[SubSeq(F_2022, 1, 4)].low = <<Whole(300)>>
    /\ yearly_price_segments[SubSeq(F_2023, 1, 4)].mid = <<Cents(30001)>>
    /\ yearly_price_segments[SubSeq(F_2023, 1, 4)].low = << >>

\* the average of a tier list rounded to 2 decimals, in hundredths; null when empty
ClaimedAverage(prices) ==
    IF prices = << >> THEN [null |-> TRUE, average |-> 0]
    ELSE LET K == MaxOf({prices[i].k : i \in DOMAIN prices} \cup {2})
         IN  [null |-> FALSE,
              average |-> RoundHalfEven(100 * SumScaled(prices, K),
                                        Len(prices) * Pow10(K))]

\* round((curr - prev) / prev * 100, 2), or null
ClaimedRate(prev, curr) ==
    IF ~prev.null /\ ~curr.null /\ prev.average # 0
    THEN [null |-> FALSE,
          rate |-> RoundHalfEven((curr.average - prev.average) * 100 * 100, prev.average)]
    ELSE [null |-> TRUE, rate |-> 0]

\* C5: over the bucketed years in ascending order, inflation_summary[curr][tier]
\* is round((curr_avg - prev_avg) / prev_avg * 100, 2) when both averages are
\* non-null and prev_avg is not 0, and null otherwise; it has an entry of
\* exactly the three tiers for every bucketed year but the earliest, and for
\* no other year.
C5_InflationSummary ==
    apc = "done" =>
        LET years == SortedTexts(ClaimedYears(records))
        IN  /\ DOMAIN inflation_summary = {years[i] : i \in 2..Len(years)}
            /\ \A i \in 2..Len(years) :
                 /\ DOMAIN inflation_summary[years[i]] = {"low", "mid", "high"}
                 /\ \A t \in {"low", "mid", "high"} :
                      inflation_summary[years[i]][t] =
                        ClaimedRate(ClaimedAverage(ClaimedBucket(records, years[i - 1], t)),
                                    ClaimedAverage(ClaimedBucket(records, years[i], t)))

C5_Witness ==
    /\ apc = "done"
    /\ Cardinality(DOMAIN inflation_summary) = 2
    /\ \E y \in DOMAIN inflation_summary :
         /\ inflation_summary[y].low = Rate(5000)
         /\ inflation_summary[y].mid = NullRate
    /\ \E y \in DOMAIN inflation_summary : inflation_summary[y].low = Rate(-3333)

RECURSIVE SentencesFromRates(_, _, _)
\* one sentence per (year, tier) whose recorded rate is neither null nor 0
SentencesFromRates(summary, years, i) ==
    IF i > Len(years) THEN << >>
    ELSE LET S(t) ==
                 LET e == summary[years[i]][t]
                 IN  IF e.null \/ e.rate = 0 THEN << >>
                     ELSE <<[dir |-> IF e.rate > 0 THEN "increased" ELSE "decreased",
                             from |-> years[i - 1], to |-> years[i], segment |-> t,
                             by |-> AbsInt(e.rate)]>>
         IN  S("low") \o S("mid") \o S("high") \o SentencesFromRates(summary, years, i + 1)

\* C6 as stated: inflation_analysis holds one sentence for a (year, tier)
\* exactly when the rate recorded in inflation_summary is non-null and not 0,
\* "increased" for a positive and "decreased" for a negative rate, in (year
\* ascending, low, mid, high) order.
C6_SentenceIffRecordedRateNonZero ==
    apc = "done" =>
        inflation_analysis =
            SentencesFromRates(inflation_summary,
                               SortedTexts(DOMAIN yearly_segment_summary), 2)

RECURSIVE SentencesFromAverages(_, _, _)
\* one sentence per (year, tier) whose two averages are non-null and differ
SentencesFromAverages(summary, years, i) ==
    IF i > Len(years) THEN << >>
    ELSE LET S(t) ==
                 LET prev == summary[years[i - 1]][t]
                     curr == summary[years[i]][t]
                 IN  IF prev.null \/ curr.null \/ prev.average = curr.average THEN << >>
                     ELSE <<[dir |-> IF curr.average > prev.average THEN "increased"
                                     ELSE "decreased",
                             from |-> years[i - 1], to |-> years[i], segment |-> t,
                             by |-> AbsInt(ClaimedRate(prev, curr).rate)]>>
         IN  S("low") \o S("mid") \o S("high")
             \o SentencesFromAverages(summary, years, i + 1)

\* C6 amended: inflation_analysis holds one sentence for a (year, tier) exactly
\* when both averages are non-null and differ, that is when the rate before
\* rounding is not 0: "increased" when the current average is the larger,
\* "decreased" otherwise, stating the rounded absolute rate, which may be 0.0;
\* in (year ascending, low, mid, high) order.  100 -> 150 gives increased by
\* 50.0, 150 -> 100 decreased by 33.33, equal averages no sentence.
C6_SentenceIffAveragesDiffer ==
    apc = "done" =>
        /\ inflation_analysis =
             SentencesFromAverages(yearly_segment_summary,
                                   SortedTexts(DOMAIN yearly_segment_summary), 2)
        /\ \A i \in DOMAIN inflation_analysis :
             LET s == inflation_analysis[i]
                 prev == yearly_segment_summary[s.from][s.segment].average
                 curr == yearly_segment_summary[s.to][s.segment].average
             IN  /\ (prev = 10000 /\ curr = 15000) => (s.dir = "increased" /\ s.by = 5000)
                 /\ (prev = 15000 /\ curr = 10000) => (s.dir = "decreased" /\ s.by = 3333)
                 /\ prev # curr

C6_Witness ==
    /\ apc = "done"
    /\ Len(inflation_analysis) = 2
    /\ inflation_analysis[1].dir = "decreased" /\ inflation_analysis[1].by = 3333
    /\ inflation_analysis[2].dir = "increased" /\ inflation_analysis[2].by = 5000

-----------------------------------------------------------------------------
(* Properties of the cleaning and analysis stages together *)

\* a raw fetch_time that is missing, null, empty or not a timestamp
BadFetchTime(ft) == ft.tag \in {"absent", "null"} \/ ft.s = NoText \/ ~IsDateTimeText(ft.s)

\* the raw items that pass the filter once their price is normalised
ClaimedSurvivors ==
    SelectSeq(RawParsed,
              LAMBDA it : ClaimedRetained([it EXCEPT !.price = NormalizePrice(it.price)]))

RECURSIVE CountPrices(_, _)
\* the number of prices held by the buckets of the years of Y
CountPrices(segments, Y) ==
    IF Y = {} THEN 0
    ELSE LET y == CHOOSE x \in Y : TRUE
         IN  Len(segments[y].low) + Len(segments[y].mid) + Len(segments[y].high)
             + CountPrices(segments, Y \ {y})

\* C9: a record whose fetch_time is missing, null, empty or unparseable and
\* which passes the filter is in the cleaned dataset, at its place among the
\* survivors (files in order, lines in order) and without a fetch_time; in
\* analyze_data it adds its price to no bucket and creates no year key; the
\* filter's verdict does not depend on fetch_time.
C9_NoFetchTimeKeptButNotBucketed ==
    LET surv == ClaimedSurvivors
        bad == [i \in DOMAIN surv |-> BadFetchTime(surv[i].fetch_time)]
    IN  /\ cpc = "done" =>
             /\ Len(cleaned) = Len(surv)
             /\ \A i \in DOMAIN cleaned :
                  /\ cleaned[i].url = surv[i].url
                  /\ cleaned[i].title = surv[i].title
                  /\ bad[i] => cleaned[i].fetch_time \in {FAbsent, FNull, FStr(NoText)}
        /\ SegmentsStarted =>
             LET good == {i \in 1..(ri - 1) : ~bad[i]}
             IN  /\ CountPrices(yearly_price_segments, DOMAIN yearly_price_segments)
                      = Cardinality(good)
                 /\ DOMAIN yearly_price_segments
                      = {SubSeq(surv[i].fetch_time.s, 1, 4) : i \in good}
        /\ \A i \in DOMAIN seen_items :
             \A ft \in {FAbsent, FNull, FStr(NoText), FStr(F_2023)} :
                Keep([seen_items[i] EXCEPT !.fetch_time = ft])
                  <=> (\E j \in DOMAIN filtered_data : filtered_data[j] = seen_items[i])

C9_Witness ==
    /\ apc = "done"
    /\ Len(cleaned) = 2
    /\ cleaned[1].url = "u6" /\ cleaned[1].fetch_time = FNull
    /\ cleaned[2].url = "u1"
    /\ Len(input_files) = 2
    /\ DOMAIN yearly_price_segments = {SubSeq(F_2022, 1, 4)}
    /\ yearly_price_segments[SubSeq(F_2022, 1, 4)].low = <<Whole(150)>>

-----------------------------------------------------------------------------
(* Properties of extract_product_data *)

\* per strategy of the title chain, in order: did it match, and its trimmed text
TitleStrategies(doc) ==
    LET El(kinds) == [matched |-> HasNode(doc, kinds), value |-> TextOrNone(doc, kinds)]
        re == TitleSearch(GetText(doc))
    IN  <<El({"#productTitle"}), El({"#btAsinTitle"}), El({"h1.title"}), El({"title"}),
          El({"h1", "h1.title"}),
          [matched |-> re.matched, value |-> Strip(re.group)]>>

\* the same for the price chain
PriceStrategies(doc) ==
    LET El(kinds) == [matched |-> HasNode(doc, kinds), value |-> TextOrNone(doc, kinds)]
        re == PriceSearch(GetText(doc))
    IN  <<El(PriceBlockKinds), El({"span.a-price-whole"}), El({"span.a-price"}),
          El({"span#price_inside_buybox"}),
          [matched |-> re.matched, value |-> Strip(re.group)]>>

\* the value of the first strategy whose trimmed text is non-empty, else the sentinel
FirstNonEmptyValue(strategies, sentinel) ==
    LET hits == {i \in DOMAIN strategies : strategies[i].value # NoText}
    IN  IF hits = {} THEN sentinel
        ELSE strategies[CHOOSE i \in hits : \A j \in hits : i <= j].value

\* the value of the first strategy that matches, the sentinel when none
\* matches or when that value is empty
FirstMatchedValue(strategies, sentinel) ==
    LET hits == {i \in DOMAIN strategies : strategies[i].matched}
    IN  IF hits = {} THEN sentinel
        ELSE LET v == strategies[CHOOSE i \in hits : \A j \in hits : i <= j].value
             IN  IF v = NoText THEN sentinel ELSE v

\* C2 as stated: each chain returns the trimmed value of the first strategy
\* whose match is non-empty, and the sentinel only when no strategy has a
\* non-empty match.
C2_FirstNonEmptyMatch ==
    product_data.returned =>
        /\ product_data.data.title
             = FirstNonEmptyValue(TitleStrategies(html_doc), T_NoTitle)
        /\ product_data.data.price
             = FirstNonEmptyValue(PriceStrategies(html_doc), T_NoPrice)

\* C2 amended: each chain returns the trimmed value of the first strategy, in
\* order, whose element is present (whose pattern matches, for the regex); the
\* field takes its sentinel when no strategy matches or when that first
\* matching strategy's trimmed text is empty, even if a later strategy has text.
C2_FirstPresentMatch ==
    product_data.returned =>
        /\ product_data.data.title
             = FirstMatchedValue(TitleStrategies(html_doc), T_NoTitle)
        /\ product_data.data.price
             = FirstMatchedValue(PriceStrategies(html_doc), T_NoPrice)

C2_Witness ==
    /\ product_data.returned
    /\ html_doc = <<[kind |-> "#productTitle", text |-> X_Blank],
                    [kind |-> "title", text |-> X_Name]>>
    /\ product_data.data.title = T_NoTitle
    /\ product_data.data.price = T_NoPrice

-----------------------------------------------------------------------------
(* Properties of process_parquet_files *)

\* C7: every local file the stage creates under /tmp for a batch has been
\* removed by the time the stage finishes, on every exit path: after a
\* successful upload, for an empty batch, when reading fails, and when writing
\* or uploading the output fails (a failing os.remove set aside).
C7_NoLocalFileLeft ==
    (ppc = "done" /\ \A i \in DOMAIN batch_log : batch_log[i] # "remove_failed")
        => tmp_files = {}

\* C8 as stated: a failure of one batch (download, read, empty batch, failing
\* row, writing, uploading or removing) aborts at most that batch, so once the
\* listing is there every .parquet object of it has been dealt with when the
\* stage ends.
C8_EveryBatchReached ==
    ppc = "done" =>
        \A i \in DOMAIN batch_log : listing[i].parquet => batch_log[i] # "pending"

StageFatal == {"write_failed", "upload_failed", "remove_failed"}

\* C8 amended: a failed download, an unreadable or empty batch and a failing
\* row abort at most that batch (or row) and every later object is still
\* processed; a failure writing or uploading the output or removing the local
\* files ends the whole stage, leaving every later object unprocessed; in both
\* cases the outputs uploaded before stay as they were (only a successful
\* upload changes the store, and only at its own key).
C8_OnlyOutputFailuresStopTheStage ==
    /\ [](ppc = "done" =>
            \A i \in DOMAIN batch_log :
                batch_log[i] = "pending"
                    <=> \E j \in 1..(i - 1) : batch_log[j] \in StageFatal)
    /\ [][uploaded' # uploaded =>
            /\ ppc = "upload" /\ ppc' = "remove"
            /\ batch_log' = batch_log
            /\ \A k \in DOMAIN uploaded :
                 k # OutputKey(listing[oi]) => (k \in DOMAIN uploaded' /\ uploaded'[k] = uploaded[k])]_vars

C8_Witness ==
    /\ ppc = "done"
    /\ Len(batch_log) = 2
    /\ batch_log[1] = "read_failed"
    /\ batch_log[2] = "processed"
    /\ DOMAIN uploaded = {"a"}
    /\ Len(uploaded["a"]) = 1

\* a row whose archive record resolved to non-empty text and whose processing
\* raised nothing
Eligible(row) ==
    /\ row.locator_ok
    /\ row.resolve = "response"
    /\ ~row.payload_empty
    /\ row.url.has

\* C10: the records emitted for a batch correspond one-to-one, in row order,
\* to the rows that resolved to non-empty text and raised nothing; each such
\* row yields one record whose title and price are non-empty (scraped or
\* sentinel), so the drop branch is never taken; a row whose resolution fails
\* yields nothing and the rows after it are still processed.
C10_OneRecordPerResolvedRow ==
    ppc \in {"rows", "upload", "remove"} =>
        LET done == SelectSeq(SubSeq(df, 1, rowi - 1), Eligible)
        IN  /\ Len(extracted_data) = Len(done)
            /\ \A i \in DOMAIN extracted_data :
                 /\ extracted_data[i].url = done[i].url.s
                 /\ extracted_data[i].title # NoText
                 /\ extracted_data[i].price # NoText
            /\ ppc \in {"upload", "remove"} => rowi = Len(df) + 1

C10_Witness ==
    /\ ppc = "upload"
    /\ Len(df) = 2
    /\ df[1].resolve = "client_error"
    /\ df[2].doc = D_Nothing /\ df[2].url.s = "" /\ df[2].fetch_time = FAbsent
    /\ Len(extracted_data) = 1
    /\ extracted_data[1].title = T_NoTitle
    /\ extracted_data[1].price = T_NoPrice

====
